---- MODULE Spec2Model ----
(***************************************************************************)
(* nytl: the generic convert facility (nytl/convert.hpp) and the           *)
(* reference-iteration adapter (nytl/bits/referenceIteration.inl).         *)
(*                                                                         *)
(* Types are the template arguments the facility is instantiated with:     *)
(* the scalars int, double and Opaque (struct Opaque { int v; }, a type    *)
(* with no conversion to or from anything else), std::vector<E> and        *)
(* std::array<E, n> over them.  A type is the triple <<kind, element,      *)
(* length>>.  A value is the sequence of its elements; a scalar has one.   *)
(* A double is stored as its number of halves (1.5 is 3), so that          *)
(* int -> double and double -> int are not the identity.  The language     *)
(* level is C++17, the one the header's `if constexpr` needs.              *)
(***************************************************************************)
EXTENDS Integers, Sequences, FiniteSets, TLC

VARIABLES
  obj,       \* the source object of the conversions: its type and its value
  target,    \* the target type of the most recent conversion
  res,       \* the outcome of the most recent expression
  strategy,  \* the strategy the most recent convert<To>(obj) selected
  op,        \* the most recent operation
  ac,        \* the AutoCastable convert(obj) returned, while it lives
  atCall,    \* the value obj had when convert(obj) was called
  stale,     \* obj changed between convert(obj) and its conversion
  ret,       \* the result a cast is filling
  f,         \* containerCast: read cursor, an offset from con.begin()
  t,         \* containerCast: write cursor, an offset from ret.begin()
  i,         \* arrayCast: loop index
  pc,        \* where the running cast is
  writes,    \* elements the running cast has assigned
  oob,       \* the running cast wrote through a cursor at or past ret.end()
  ub,        \* an element conversion of the running cast was undefined
  coll,      \* the collection of pointers a referenceIteration wraps
  view,      \* the referenceIteration: its object_, and whether it is const
  entry,     \* the iteration entry point called most recently
  it,        \* the iterator that call returned
  cur,       \* the iterator of the running traversal
  last,      \* the end iterator of the running traversal
  out,       \* the items the running traversal has yielded
  ipc        \* where the running traversal is

convertVars == <<obj, target, res, strategy, op, ac, atCall, stale>>
castVars == <<ret, f, t, i, pc, writes, oob, ub>>
iterVars == <<coll, view, entry, it, cur, last, out, ipc>>
vars == <<convertVars, castVars, iterVars>>

\* Longest std::vector, and largest std::array length, the model builds.
MaxLen == 2
\* Largest int held by a value (doubles go up to MaxInt + 1/2).
MaxInt == 1

Elem == {"int", "double", "Opaque"}
Arithmetic == {"int", "double"}

Scalar(e) == <<"scalar", e, 0>>
Vector(e) == <<"vector", e, 0>>
Array(e, n) == <<"array", e, n>>

Types ==
  {Scalar(e) : e \in Elem} \cup {Vector(e) : e \in Elem}
    \cup {Array(e, n) : e \in Elem, n \in 1..MaxLen}

ElemVals(e) == IF e = "double" THEN 0..(2 * MaxInt + 1) ELSE 0..MaxInt

ValuesOf(T) ==
  CASE T[1] = "scalar" -> [1..1 -> ElemVals(T[2])]
    [] T[1] = "vector" -> UNION {[1..k -> ElemVals(T[2])] : k \in 0..MaxLen}
    [] T[1] = "array" -> [1..T[3] -> ElemVals(T[2])]

Objects == {[T |-> T, val |-> v] : <<T, v>> \in UNION {{<<T, v>> : v \in ValuesOf(T)} : T \in Types}}

(***************************************************************************)
(* The outcome of a call: a value, a program that does not build, or       *)
(* undefined behaviour: the call returns any object representation of the  *)
(* result type (st = "undefined"), or the program stops in it (Fault).     *)
(***************************************************************************)
Value(v) == [st |-> "value", val |-> v]
IllFormed == [st |-> "ill_formed", val |-> <<>>]
Fault == [st |-> "fault", val |-> <<>>]

(***************************************************************************)
(* static_cast<To>(declval<From>()), convert.hpp:109-110 and :122.         *)
(* Well-formed between identical types (a copy), between int and double,   *)
(* and from int or double to any std::vector (its explicit size            *)
(* constructor); nothing converts a vector, an array or Opaque to another  *)
(* type.                                                                   *)
(***************************************************************************)
ValidStaticCast(To, From) ==
  \/ To = From
  \/ To[1] = "scalar" /\ From[1] = "scalar" /\ To[2] \in Arithmetic /\ From[2] \in Arithmetic
  \/ To[1] = "vector" /\ From[1] = "scalar" /\ From[2] \in Arithmetic

\* static_cast between the arithmetic types: int -> double is exact,
\* double -> int truncates.
ArithmeticCast(toE, fromE, x) ==
  IF toE = fromE THEN x
  ELSE IF toE = "double" THEN 2 * x
  ELSE x \div 2

static_cast(To, From, v) ==
  IF To = From THEN v
  ELSE IF To[1] = "scalar" THEN <<ArithmeticCast(To[2], From[2], v[1])>>
  ELSE [k \in 1..ArithmeticCast("int", From[2], v[1]) |-> 0]

(***************************************************************************)
(* The template-argument checks of containerCast (convert.hpp:82-88): the  *)
(* target has T{}, resize() and begin()/end(), the source has size() and   *)
(* begin()/end(), and an element of the target can be assigned from the    *)
(* AutoCastable of a source element (always: its conversion operator is a  *)
(* template).                                                              *)
(***************************************************************************)
ValidContainerCast(To, From) ==
  To[1] = "vector" /\ From[1] \in {"vector", "array"}

(***************************************************************************)
(* convert<T>(other) names two overloads: convert<T, O>(const O&) and      *)
(* convert<O>(const O&) with O = T.  Both are exact matches when other is  *)
(* a T, and the call is ambiguous; otherwise the first is chosen.          *)
(***************************************************************************)
ConvertOverloadUnique(To, From) == To # From

\* The default template argument of arrayCast (convert.hpp:69-70): the
\* expression convert<T>(declval<std::array<U, I>>()[0]) must be well-formed.
ValidArrayCast(toE, fromE) == ConvertOverloadUnique(toE, fromE)

\* The partial specialization of convert.hpp:136-137 matches.
ArraySpecialization(From, To) ==
  /\ From[1] = "array" /\ To[1] = "array" /\ From[3] = To[3]
  /\ ValidArrayCast(To[2], From[2])

(***************************************************************************)
(* Which strategy Converter<From, To>::call uses.  The array               *)
(* specialization is more specialized than Converter<From, To> and is      *)
(* chosen when it matches.  In the general one, expressionValid<E, From,   *)
(* To> instantiates E<From, To>, and the first parameter of                *)
(* ValidStaticCast and of ValidContainerCast is the target: the two        *)
(* conditions ask whether To converts to From.                             *)
(***************************************************************************)
Selected(From, To) ==
  IF ArraySpecialization(From, To) THEN "arrayCast"
  ELSE IF ValidStaticCast(From, To) THEN "static_cast"
  ELSE IF ValidContainerCast(From, To) THEN "containerCast"
  ELSE "none"

RECURSIVE ConverterCall(_, _, _)

(***************************************************************************)
(* The elements of a cast's result: element i is what                      *)
(* Converter<from, to>::call returns for src[i].  One outcome per choice   *)
(* of the elements' outcomes.                                              *)
(***************************************************************************)
ElementWise(toE, fromE, src) ==
  LET N == Len(src)
      outc == [k \in 1..N |-> ConverterCall(Scalar(fromE), Scalar(toE), <<src[k]>>)]
      vals == [k \in 1..N |-> {o.val[1] : o \in {x \in outc[k] : x.st \in {"value", "undefined"}}}]
      rs == {r \in [1..N -> UNION {vals[k] : k \in 1..N}] : \A k \in 1..N : r[k] \in vals[k]}
  IN  IF \E k \in 1..N : IllFormed \in outc[k] THEN {IllFormed}
      ELSE IF \A k \in 1..N : \A o \in outc[k] : o.st = "value"
      THEN {Value(r) : r \in rs}
      ELSE {Fault} \cup [st : {"undefined"}, val : rs]

\* arrayCast<T>(array), convert.hpp:69-77.
arrayCast(toE, From, array) ==
  IF ValidArrayCast(toE, From[2]) THEN ElementWise(toE, From[2], array)
  ELSE {IllFormed}

\* containerCast<T>(con), convert.hpp:82-98.
containerCast(To, From, con) == ElementWise(To[2], From[2], con)

\* Converter<From, To>::call(other), convert.hpp:116-139.  With no branch
\* taken the static_assert of line 125 holds for every From
\* (void_t<From> is void) and control flows off the end of the function.
ConverterCall(From, To, other) ==
  LET s == Selected(From, To)
  IN  CASE s = "arrayCast" -> arrayCast(To[2], From, other)
        [] s = "static_cast" ->
             IF ValidStaticCast(To, From) THEN {Value(static_cast(To, From, other))}
             ELSE {IllFormed}
        [] s = "containerCast" ->
             IF ValidContainerCast(To, From) THEN containerCast(To, From, other)
             ELSE {IllFormed}
        [] s = "none" -> {Fault} \cup [st : {"undefined"}, val : ValuesOf(To)]

\* convert<T>(other), convert.hpp:32-36.
convert(To, From, other) ==
  IF ConvertOverloadUnique(To, From) THEN ConverterCall(From, To, other)
  ELSE {IllFormed}

(***************************************************************************)
(* The convert facility as its caller drives it.                           *)
(***************************************************************************)
NoCall == [st |-> "none", val |-> <<>>]
Null == [object_ |-> "null"]

CastIdle ==
  /\ ret = <<>> /\ f = 0 /\ t = 0 /\ i = 0 /\ pc = "idle"
  /\ writes = 0 /\ oob = FALSE /\ ub = FALSE

IterIdle ==
  /\ coll = <<>> /\ view = [object_ |-> "null", const |-> FALSE] /\ entry = "none" /\ it = [pos |-> 0, rev |-> FALSE]
  /\ cur = [pos |-> 0, rev |-> FALSE] /\ last = [pos |-> 0, rev |-> FALSE]
  /\ out = <<>> /\ ipc = "idle"

ConvertIdle ==
  /\ target = obj.T /\ res = NoCall /\ strategy = "none" /\ op = "none"
  /\ ac = Null /\ atCall = <<>> /\ stale = FALSE

InitConvert ==
  /\ obj \in Objects
  /\ ConvertIdle /\ CastIdle /\ IterIdle

\* T x = convert<To>(obj), convert.hpp:32-36.
Convert(To) ==
  /\ op = "none"
  /\ res' \in convert(To, obj.T, obj.val)
  /\ target' = To
  /\ strategy' = IF ConvertOverloadUnique(To, obj.T) THEN Selected(obj.T, To) ELSE "ambiguous"
  /\ op' = "convert"
  /\ UNCHANGED <<obj, ac, atCall, stale, castVars, iterVars>>

\* The full-expression ends: its result and the AutoCastable temporary are
\* gone ("only a temporary expression", convert.hpp:55-56).
Discard ==
  /\ op \in {"convert", "autocast"}
  /\ res.st # "fault"
  /\ op' = "none"
  /\ res' = NoCall /\ target' = obj.T /\ strategy' = "none"
  /\ ac' = Null /\ atCall' = <<>> /\ stale' = FALSE
  /\ UNCHANGED <<obj, castVars, iterVars>>

NextConvert ==
  \/ \E To \in Types : Convert(To)
  \/ Discard

SpecConvert == InitConvert /\ [][NextConvert]_vars

(***************************************************************************)
(* The deferred form: convert(obj) now, the conversion later.              *)
(***************************************************************************)
InitAuto ==
  /\ obj \in {o \in Objects : o.T[1] \in {"scalar", "vector"}}
  /\ ConvertIdle /\ CastIdle /\ IterIdle

\* convert(obj), convert.hpp:59-63: an AutoCastable holding &other.
ConvertDeferred ==
  /\ op = "none"
  /\ ac' = [object_ |-> "obj"]
  /\ atCall' = obj.val
  /\ op' = "convert_deferred"
  /\ UNCHANGED <<obj, target, res, strategy, stale, castVars, iterVars>>

\* The caller writes the object an AutoCastable refers to, which the
\* AutoCastable does not own (convert.hpp:41-42, :47): every element moves
\* to the next value of its type.
Assign ==
  /\ ac # Null
  /\ obj.val # <<>>
  /\ obj' = [obj EXCEPT !.val =
               [k \in DOMAIN obj.val |-> IF obj.val[k] + 1 \in ElemVals(obj.T[2])
                                         THEN obj.val[k] + 1 ELSE 0]]
  /\ UNCHANGED <<target, res, strategy, op, ac, atCall, stale, castVars, iterVars>>

\* *object_ of AutoCastable::operator O, convert.hpp:46-47.
AutoCastSourceCopied(a) == atCall

AutoCastSource(a) == IF a.object_ = "obj" THEN obj.val ELSE <<>>

\* AutoCastable<T>::operator O(), convert.hpp:46: convert<O, T>(*object_),
\* both template arguments given, so only the first overload is named.
AutoCast(O) ==
  /\ ac # Null
  /\ res' \in ConverterCall(obj.T, O, AutoCastSource(ac))
  /\ target' = O
  /\ op' = "autocast"
  /\ stale' = (atCall # obj.val)
  /\ ac' = Null
  /\ UNCHANGED <<obj, strategy, atCall, castVars, iterVars>>

NextAuto ==
  \/ ConvertDeferred
  \/ Assign
  \/ \E O \in Types : AutoCast(O)
  \/ Discard

SpecAuto == InitAuto /\ [][NextAuto]_vars

(***************************************************************************)
(* containerCast and arrayCast, one loop iteration per step.  The source   *)
(* is obj; a cursor is its offset from begin(), and end() is the length.   *)
(***************************************************************************)
InitCast ==
  /\ obj \in {o \in Objects : o.T[1] \in {"vector", "array"}}
  /\ ConvertIdle /\ CastIdle /\ IterIdle

\* std::vector::resize(n): n elements, the new ones value-initialised.
resizeShort(c, n) == [k \in 1..(IF n > 0 THEN n - 1 ELSE 0) |-> IF k <= Len(c) THEN c[k] ELSE 0]

resize(c, n) == [k \in 1..n |-> IF k <= Len(c) THEN c[k] ELSE 0]

\* containerCast<To>(obj) up to the loop, convert.hpp:89-94.
CallContainerCast(To) ==
  /\ pc = "idle" /\ op = "none"
  /\ ValidContainerCast(To, obj.T)
  /\ op' = "containerCast" /\ target' = To /\ atCall' = obj.val
  /\ ret' = resize(<<>>, Len(obj.val))
  /\ f' = 0 /\ t' = 0
  /\ pc' = "loop" /\ writes' = 0 /\ oob' = FALSE /\ ub' = FALSE
  /\ UNCHANGED <<obj, res, strategy, ac, stale, i, iterVars>>

\* *(t++) = convert(*(f++)), convert.hpp:95-96.  The AutoCastable of the
\* source element converts to the target's element type.  A write at or
\* past ret.end() is out of bounds.
ContainerCastStepPreIncrement ==
  /\ pc = "loop" /\ op = "containerCast"
  /\ f # Len(obj.val)
  /\ \E o \in ConverterCall(Scalar(obj.T[2]), Scalar(target[2]), <<obj.val[f + 1]>>) :
       IF o.st = "fault"
       THEN pc' = "fault" /\ UNCHANGED <<ret, f, t, writes, oob, ub>>
       ELSE /\ IF t + 1 < Len(ret)
               THEN ret' = [ret EXCEPT ![t + 2] = o.val[1]] /\ oob' = oob
               ELSE ret' = ret /\ oob' = TRUE
            /\ ub' = (ub \/ o.st = "undefined")
            /\ f' = f + 1 /\ t' = t + 1 /\ writes' = writes + 1
            /\ pc' = pc
  /\ UNCHANGED <<convertVars, i, iterVars>>

ContainerCastStep ==
  /\ pc = "loop" /\ op = "containerCast"
  /\ f # Len(obj.val)
  /\ \E o \in ConverterCall(Scalar(obj.T[2]), Scalar(target[2]), <<obj.val[f + 1]>>) :
       IF o.st = "fault"
       THEN pc' = "fault" /\ UNCHANGED <<ret, f, t, writes, oob, ub>>
       ELSE /\ IF t < Len(ret)
               THEN ret' = [ret EXCEPT ![t + 1] = o.val[1]] /\ oob' = oob
               ELSE ret' = ret /\ oob' = TRUE
            /\ ub' = (ub \/ o.st = "undefined")
            /\ f' = f + 1 /\ t' = t + 1 /\ writes' = writes + 1
            /\ pc' = pc
  /\ UNCHANGED <<convertVars, i, iterVars>>

\* f == con.end(): return ret, convert.hpp:95 and :97.
ContainerCastReturn ==
  /\ pc = "loop" /\ op = "containerCast"
  /\ f = Len(obj.val)
  /\ pc' = "done"
  /\ UNCHANGED <<convertVars, ret, f, t, i, writes, oob, ub, iterVars>>

\* arrayCast<toE>(obj) up to the loop, convert.hpp:69-74: std::array<T, I>
\* ret {} is value-initialised.
CallArrayCast(toE) ==
  /\ pc = "idle" /\ op = "none"
  /\ obj.T[1] = "array"
  /\ ValidArrayCast(toE, obj.T[2])
  /\ op' = "arrayCast" /\ target' = Array(toE, obj.T[3]) /\ atCall' = obj.val
  /\ ret' = [k \in 1..obj.T[3] |-> 0]
  /\ i' = 0
  /\ pc' = "loop" /\ writes' = 0 /\ oob' = FALSE /\ ub' = FALSE
  /\ UNCHANGED <<obj, res, strategy, ac, stale, f, t, iterVars>>

\* ret[i] = convert<T>(array[i]); ++i, convert.hpp:74-75.
ArrayCastStepFirstElement ==
  /\ pc = "loop" /\ op = "arrayCast"
  /\ i < target[3]
  /\ \E o \in convert(Scalar(target[2]), Scalar(obj.T[2]), <<obj.val[1]>>) :
       IF o.st = "fault"
       THEN pc' = "fault" /\ UNCHANGED <<ret, i, writes, ub>>
       ELSE /\ ret' = [ret EXCEPT ![i + 1] = o.val[1]]
            /\ ub' = (ub \/ o.st = "undefined")
            /\ i' = i + 1 /\ writes' = writes + 1
            /\ pc' = pc
  /\ UNCHANGED <<convertVars, f, t, oob, iterVars>>

ArrayCastStep ==
  /\ pc = "loop" /\ op = "arrayCast"
  /\ i < target[3]
  /\ \E o \in convert(Scalar(target[2]), Scalar(obj.T[2]), <<obj.val[i + 1]>>) :
       IF o.st = "fault"
       THEN pc' = "fault" /\ UNCHANGED <<ret, i, writes, ub>>
       ELSE /\ ret' = [ret EXCEPT ![i + 1] = o.val[1]]
            /\ ub' = (ub \/ o.st = "undefined")
            /\ i' = i + 1 /\ writes' = writes + 1
            /\ pc' = pc
  /\ UNCHANGED <<convertVars, f, t, oob, iterVars>>

\* i == I: return ret, convert.hpp:74 and :76.
ArrayCastReturn ==
  /\ pc = "loop" /\ op = "arrayCast"
  /\ ~(i < target[3])
  /\ pc' = "done"
  /\ UNCHANGED <<convertVars, ret, f, t, i, writes, oob, ub, iterVars>>

\* The caller is done with the result and may cast again.
CastDiscard ==
  /\ pc = "done"
  /\ pc' = "idle" /\ op' = "none" /\ target' = obj.T /\ atCall' = <<>>
  /\ ret' = <<>> /\ f' = 0 /\ t' = 0 /\ i' = 0
  /\ writes' = 0 /\ oob' = FALSE /\ ub' = FALSE
  /\ UNCHANGED <<obj, res, strategy, ac, stale, iterVars>>

NextCast ==
  \/ \E To \in Types : CallContainerCast(To)
  \/ ContainerCastStep
  \/ ContainerCastReturn
  \/ \E toE \in Elem : CallArrayCast(toE)
  \/ ArrayCastStep
  \/ ArrayCastReturn
  \/ CastDiscard
  \/ \E To \in Types : Convert(To)
  \/ ConvertDeferred
  \/ \E O \in Types : AutoCast(O)
  \/ Discard

SpecCast == InitCast /\ [][NextCast]_vars

(***************************************************************************)
(* referenceIteration over a collection of non-null pointers.  A pointer   *)
(* is the address 1..MaxLen of an int, and the int at address a is 10 * a. *)
(* An iterator is its offset from the collection's begin(); a reverse      *)
(* iterator is the offset of its base().                                   *)
(***************************************************************************)
pointee(a) == 10 * a

\* What a read outside the collection may give.
GarbageItems == {0}

Collections == UNION {[1..n -> 1..MaxLen] : n \in 0..MaxLen}

EntryPoints == {"begin", "cbegin", "rbegin", "crbegin", "end", "cend", "rend", "crend"}

\* The wrapped collection's own entry points.
ObjectEntry(name, c) ==
  [pos |-> IF name \in {"begin", "cbegin", "rend", "crend"} THEN 0 ELSE Len(c),
   rev |-> name \in {"rbegin", "crbegin", "rend", "crend"}]

\* Any bit pattern of an iterator: an offset in or out of the collection.
AnyIterator == [pos : -1..(MaxLen + 1), rev : BOOLEAN]

\* referenceIteration<T>::begin() ... crend(), referenceIteration.inl:69-81.
\* begin() and end() of a non-const view evaluate object_->begin() and
\* object_->end() and return nothing: what the caller gets is undefined.
\* Every other overload returns the collection's iterator.
EntryUndefined(name, const) == name \in {"begin", "end"} /\ ~const

Entry(name, const, c) ==
  IF EntryUndefined(name, const) THEN AnyIterator
  ELSE {ObjectEntry(name, c)}

\* referenceIterator<T>::operator*, referenceIteration.inl:44-45:
\* *(T::operator*()).
Dereference(iter, c) == pointee(c[iter.pos + 1])

InitIter ==
  /\ obj = [T |-> Scalar("int"), val |-> <<0>>]
  /\ ConvertIdle /\ CastIdle
  /\ coll \in Collections
  /\ view \in {[object_ |-> "coll", const |-> b] : b \in BOOLEAN}
  /\ entry = "none" /\ it = [pos |-> 0, rev |-> FALSE]
  /\ cur = [pos |-> 0, rev |-> FALSE] /\ last = [pos |-> 0, rev |-> FALSE]
  /\ out = <<>> /\ ipc = "idle"

\* it = view.name(): the call returns, or, where it is undefined, the
\* program may stop in it.
CallEntry(name) ==
  /\ ipc = "idle"
  /\ entry' = name
  /\ \/ it' \in Entry(name, view.const, coll) /\ ipc' = ipc
     \/ EntryUndefined(name, view.const) /\ it' = it /\ ipc' = "fault"
  /\ UNCHANGED <<convertVars, castVars, coll, view, cur, last, out>>

\* for(auto i = view.begin(); i != view.end(); ++i): the two calls.
TraverseBegin ==
  /\ ipc = "idle"
  /\ \/ /\ cur' \in Entry("begin", view.const, coll)
        /\ last' \in Entry("end", view.const, coll)
        /\ ipc' = "loop"
     \/ /\ EntryUndefined("begin", view.const)
        /\ UNCHANGED <<cur, last>>
        /\ ipc' = "fault"
  /\ out' = <<>>
  /\ UNCHANGED <<convertVars, castVars, coll, view, entry, it>>

\* One iteration: *i is yielded, ++i is the increment the iterator
\* inherits (referenceIteration.inl:38).  Dereferencing an iterator that is
\* not at an element is undefined: the program stops, or some object is
\* read and the traversal goes on (no further than the modelled offsets).
TraverseStep ==
  /\ ipc = "loop"
  /\ cur # last
  /\ IF cur.pos >= 0 /\ cur.pos < Len(coll)
     THEN /\ out' = Append(out, Dereference(cur, coll))
          /\ cur' = [cur EXCEPT !.pos = cur.pos + 1]
          /\ ipc' = ipc
     ELSE \/ /\ ipc' = "fault"
             /\ UNCHANGED <<out, cur>>
          \/ /\ cur.pos < MaxLen + 1
             /\ \E g \in GarbageItems : out' = Append(out, g)
             /\ cur' = [cur EXCEPT !.pos = cur.pos + 1]
             /\ ipc' = ipc
  /\ UNCHANGED <<convertVars, castVars, coll, view, entry, it, last>>

TraverseEnd ==
  /\ ipc = "loop"
  /\ cur = last
  /\ ipc' = "done"
  /\ UNCHANGED <<convertVars, castVars, coll, view, entry, it, cur, last, out>>

NextIter ==
  \/ \E name \in EntryPoints : CallEntry(name)
  \/ TraverseBegin
  \/ TraverseStep
  \/ TraverseEnd

SpecIter == InitIter /\ [][NextIter]_vars

(***************************************************************************)
(* What the specification calls a strategy that applies to (From, To).     *)
(***************************************************************************)
NativeApplies(From, To) == ValidStaticCast(To, From)

ElementsConvertible(fromE, toE) == NativeApplies(Scalar(fromE), Scalar(toE))

ContainerApplies(From, To) ==
  ValidContainerCast(To, From) /\ ElementsConvertible(From[2], To[2])

ArrayApplies(From, To) ==
  /\ From[1] = "array" /\ To[1] = "array" /\ From[3] = To[3]
  /\ ElementsConvertible(From[2], To[2])

Defined(outcomes) == \A o \in outcomes : o.st = "value"

\* C1: a traversal of the view from begin() to end() yields exactly the
\* pointees of the collection's pointers, one per element, in the
\* collection's order.
C1_TraversalYieldsPointees ==
  ipc = "done" => out = [k \in 1..Len(coll) |-> pointee(coll[k])]

\* C2: containerCast of a container of N elements returns N elements,
\* element k being what converting source element k to the target's
\* element type gives (N = 0 included).
C2_ContainerCastElementwise ==
  (op = "containerCast" /\ pc = "done")
    => /\ Len(ret) = Len(obj.val)
       /\ \A k \in 1..Len(obj.val) :
            \E o \in ConverterCall(Scalar(obj.T[2]), Scalar(target[2]), <<obj.val[k]>>) :
              o.st \in {"value", "undefined"} /\ o.val = <<ret[k]>>
       /\ ElementsConvertible(obj.T[2], target[2]) =>
            \A k \in 1..Len(obj.val) :
              ret[k] = ArithmeticCast(target[2], obj.T[2], obj.val[k])

C2_Witness ==
  /\ op = "containerCast" /\ pc = "done"
  /\ obj.T = Vector("double") /\ target = Vector("int")
  /\ Len(obj.val) = 2 /\ obj.val[1] # obj.val[2]
  /\ ret = <<obj.val[1] \div 2, obj.val[2] \div 2>> /\ ret[1] # ret[2]

C4_StrictPrecedence ==
  op = "convert" =>
    /\ NativeApplies(obj.T, target) => strategy = "static_cast"
    /\ strategy = "containerCast" => ~NativeApplies(obj.T, target)
    /\ strategy = "arrayCast" =>
         ~NativeApplies(obj.T, target) /\ ~ContainerApplies(obj.T, target)

\* C5: for a value of a type that static_cast converts to B, convert<B>(v)
\* returns static_cast<B>(v).
C5_ConvertIsStaticCast ==
  (op = "convert" /\ NativeApplies(obj.T, target))
    => res = Value(static_cast(target, obj.T, obj.val))

\* C6: for a pair of types to which no strategy applies, convert<To>(value)
\* does not build; it never produces a value.
C6_NoStrategyIsBuildFailure ==
  (/\ op = "convert"
   /\ ~NativeApplies(obj.T, target)
   /\ ~ContainerApplies(obj.T, target)
   /\ ~ArrayApplies(obj.T, target))
    => res.st = "ill_formed"

\* C7: no conversion changes its source, and the result of every
\* conversion (of a pair of types a strategy applies to) is a value with as
\* many elements as the source.
C7_SourceUnchangedResultSized ==
  /\ pc # "idle" => obj.val = atCall
  /\ pc = "done" => Len(ret) = Len(atCall)
  /\ (/\ op \in {"convert", "autocast"}
      /\ NativeApplies(obj.T, target) \/ ContainerApplies(obj.T, target) \/ ArrayApplies(obj.T, target)
      /\ res.st # "ill_formed")
       => res.st = "value" /\ Len(res.val) = Len(obj.val)

\* C8: each entry point of the view, const or not, returns an iterator at
\* the position of the wrapped collection's corresponding entry point.
C8_EntryPointsForward ==
  entry # "none" => ipc # "fault" /\ it = ObjectEntry(entry, coll)

\* C9: converting the AutoCastable of convert(v) to O yields what
\* convert<O>(v) yields for the value v has when the conversion happens,
\* wherever convert<O>(v) is defined.
C9_DeferredAgreesWithDirect ==
  (op = "autocast" /\ Defined(convert(target, obj.T, obj.val)))
    => res \in convert(target, obj.T, obj.val)

C9_Witness ==
  /\ op = "autocast" /\ stale
  /\ Defined(convert(target, obj.T, obj.val))
  /\ res \in convert(target, obj.T, obj.val)
  /\ res \notin convert(target, obj.T, atCall)

\* C10: in containerCast's loop the read and the write cursor are at the
\* same offset, every write is to an element before the destination's
\* end, and the loop is left after exactly N writes with both cursors at
\* their container's end.
C10_CursorsInLockstep ==
  op = "containerCast" =>
    /\ f = t /\ writes = f /\ f <= Len(obj.val)
    /\ ~oob
    /\ (pc = "loop" /\ f # Len(obj.val)) => t < Len(ret)
    /\ pc = "loop" => ENABLED (ContainerCastStep \/ ContainerCastReturn)
    /\ pc = "done" => (writes = Len(obj.val) /\ f = Len(obj.val) /\ t = Len(ret))

C10_Witness ==
  /\ op = "containerCast" /\ pc = "done"
  /\ writes = 2 /\ t = Len(ret)

====
